---- MODULE Spec2Model ----
(***************************************************************************)
(* Model of elasticapm/utils/cloud.py: the four cloud metadata probes      *)
(* aws_metadata, gcp_metadata, azure_metadata, azure_app_service_metadata. *)
(*                                                                         *)
(* A run is one call of one probe.  The network, the metadata servers and  *)
(* the process environment are the inputs; they are drawn with \E at the   *)
(* step that consults them.  Text values are sequences of tokens (one      *)
(* token per character, the literal "webspace" being one token), mappings  *)
(* are functions from flattened keys ("account.id") to texts.              *)
(***************************************************************************)
EXTENDS Integers, Sequences, FiniteSets, TLC

VARIABLES probe, pc, outcome, exc, result, log, attempts, token_hdr, v1, env, envRead

vars == <<probe, pc, outcome, exc, result, log, attempts, token_hdr, v1, env, envRead>>

----------------------------------------------------------------------------
(* Bounds on the inputs *)

MaxOwnerLen == 5
MaxZoneLen == 3
MaxAzLen == 2

(* Program constants *)

RetryTotal == 5
Unauthorized == 401

----------------------------------------------------------------------------
(* Texts and the string functions of Python the probes use *)

Texts(alphabet, n) == UNION {[1..k -> alphabet] : k \in 0..n}

Contains(s, sep) == \E i \in 1..Len(s) : s[i] = sep

FirstIndex(s, sep) == IF Contains(s, sep) THEN CHOOSE i \in 1..Len(s) : s[i] = sep /\ \A j \in 1..(i-1) : s[j] # sep ELSE 0

LastIndex(s, sep) == IF Contains(s, sep) THEN CHOOSE i \in 1..Len(s) : s[i] = sep /\ \A j \in (i+1)..Len(s) : s[j] # sep ELSE 0

RECURSIVE Split(_, _)
Split(s, sep) == IF ~Contains(s, sep) THEN <<s>> ELSE <<SubSeq(s, 1, FirstIndex(s, sep) - 1)>> \o Split(SubSeq(s, FirstIndex(s, sep) + 1, Len(s)), sep)

RSplit1(s, sep) == IF ~Contains(s, sep) THEN <<s>> ELSE <<SubSeq(s, 1, LastIndex(s, sep) - 1), SubSeq(s, LastIndex(s, sep) + 1, Len(s))>>

DropLast(s) == SubSeq(s, 1, Len(s) - 1)

----------------------------------------------------------------------------
(* Mappings *)

EmptyMap == [k \in {} |-> <<>>]

----------------------------------------------------------------------------
(* HTTP: response bodies, outcomes of one attempt, retry policies *)

\* Statuses of a returned response, and of the response an HTTPError carries.
RespStatuses == {200, 401}

ErrStatuses == {401, 500}

NoBody == [fmt |-> "none", txt |-> <<>>, doc |-> EmptyMap]

BadUtf8 == [fmt |-> "badutf8", txt |-> <<>>, doc |-> EmptyMap]

Garbage == [fmt |-> "garbage", txt |-> <<>>, doc |-> EmptyMap]

Array == [fmt |-> "array", txt |-> <<>>, doc |-> EmptyMap]

TextBody(t) == [fmt |-> "text", txt |-> t, doc |-> EmptyMap]

Object(d) == [fmt |-> "object", txt |-> <<>>, doc |-> d]

\* What one attempt of http.request can meet: a response ("resp", of any status,
\* which urllib3 hands back unless the retry policy lists the status), a
\* network failure ("neterr": an HTTPError without a response), or an HTTPError
\* carrying a response ("httperr": the form line 82 reads e.response.status of).
Outcomes(bodies) == [kind : {"resp"}, status : RespStatuses, body : bodies] \cup [kind : {"httperr"}, status : ErrStatuses, body : {NoBody}] \cup {[kind |-> "neterr", status |-> 0, body |-> NoBody]}

PoolRetries == [total |-> RetryTotal, status_forcelist |-> {Unauthorized}]

NoRetries == [total |-> 0, status_forcelist |-> {}]

\* Variant: the pool's Retry applied to every request (retries=False dropped).
RetryPolicyPoolEverywhere(call) == PoolRetries

RetryPolicy(call) == IF call = "token" THEN PoolRetries ELSE NoRetries

Attempt(policy, n, o) ==
  IF o.kind = "httperr" THEN "raise"
  ELSE IF o.kind = "neterr" THEN (IF n < policy.total THEN "retry" ELSE "raise")
  ELSE IF o.status \in policy.status_forcelist THEN (IF n < policy.total THEN "retry" ELSE "raise")
  ELSE "return"

Exc(type, response, status) == [type |-> type, response |-> response, status |-> status]

RaisedBy(o) == Exc("HTTPError", o.kind = "httperr", IF o.kind = "httperr" THEN o.status ELSE 0)

\* One line of the record of network operations; the body is recorded when the
\* response is handed to the caller (a retried response is drained and dropped).
Entry(op, url, hdr, o) == [op |-> op, url |-> url, hdr |-> hdr, kind |-> o.kind, status |-> o.status, body |-> o.body]

Logged(a, o) == IF a = "return" THEN o ELSE [o EXCEPT !.body = NoBody]

Connected(ok) == [kind |-> IF ok THEN "ok" ELSE "neterr", status |-> 0, body |-> NoBody]

----------------------------------------------------------------------------
(* Ends of a call *)

Return(m) == /\ pc' = "done"
             /\ outcome' = "returned"
             /\ result' = m
             /\ exc' = "none"

Raise(t) == /\ pc' = "done"
            /\ outcome' = "raised"
            /\ result' = EmptyMap
            /\ exc' = t

----------------------------------------------------------------------------
(* aws_metadata *)

LinkLocal == "169.254.169.254:80"

V1_URL == "http://169.254.169.254/latest/meta-data/"

V2_TOKEN_URL == "http://169.254.169.254/latest/api/token"

DocumentPath == "dynamic/instance-identity/document"

V1Paths == <<"iam/info", "instance-id", "instance-type", "placement/availability-zone">>

FieldVals == {<<>>, <<"v">>}

OneMissing(keys) == {[k \in keys \ {m} |-> <<"v">>] : m \in keys}

AwsDocKeys == {"accountId", "instanceId", "availabilityZone", "instanceType", "region"}

AwsDocBodies == {Object(d) : d \in [AwsDocKeys -> FieldVals] \cup OneMissing(AwsDocKeys)} \cup {Garbage, Array, BadUtf8}

TokenBodies == {TextBody(<<>>), TextBody(<<"t">>), BadUtf8}

AzTexts == Texts({"a", "b"}, MaxAzLen)

V1Bodies(i) == IF i = 4 THEN {TextBody(t) : t \in AzTexts} \cup {BadUtf8} ELSE {TextBody(<<"v">>), BadUtf8}

AwsNormalize(d) ==
  ("account.id" :> d["accountId"]) @@ ("instance.id" :> d["instanceId"])
  @@ ("availability_zone" :> d["availabilityZone"]) @@ ("machine.type" :> d["instanceType"])
  @@ ("provider" :> <<"aws">>) @@ ("region" :> d["region"])

AwsV1Metadata(v) ==
  ("accountId" :> v[1]) @@ ("instanceId" :> v[2]) @@ ("instanceType" :> v[3])
  @@ ("availabilityZone" :> v[4]) @@ ("region" :> DropLast(v[4]))

\* json.loads of the decoded body followed by the key lookups of lines 72-79:
\* the exception type raised, or "none".
AwsParseError(b) ==
  IF b.fmt \in {"badutf8", "garbage"} THEN "ValueError"
  ELSE IF b.fmt = "array" THEN "TypeError"
  ELSE IF ~(AwsDocKeys \subseteq DOMAIN b.doc) THEN "KeyError"
  ELSE "none"

\* except urllib3.exceptions.HTTPError as e: if e.response.status == 401
AwsInnerExcept(e) ==
  IF e.type # "HTTPError" THEN [to |-> "outer", exc |-> e]
  ELSE IF ~e.response THEN [to |-> "outer", exc |-> Exc("AttributeError", FALSE, 0)]
  ELSE IF e.status = Unauthorized THEN [to |-> "v1", exc |-> e]
  ELSE [to |-> "return", exc |-> e]

\* Variant: the outer handler without socket.error.
AwsOuterCatchesHttpOnly(e) == e.type = "HTTPError"

\* except (socket.error, urllib3.exceptions.HTTPError)
AwsOuterCatches(e) == e.type \in {"socket.error", "HTTPError"}

AwsOuter(e) == IF AwsOuterCatches(e) THEN Return(EmptyMap) ELSE Raise(e.type)

AwsInner(e) ==
  LET d == AwsInnerExcept(e) IN
    IF d.to = "v1" THEN /\ pc' = "v1"
                        /\ UNCHANGED <<outcome, exc, result>>
    ELSE IF d.to = "return" THEN Return(EmptyMap)
    ELSE AwsOuter(d.exc)

AwsConnect ==
  /\ probe = "aws" /\ pc = "connect"
  /\ \E ok \in BOOLEAN :
       /\ log' = Append(log, Entry("connect", LinkLocal, FALSE, Connected(ok)))
       /\ IF ok THEN /\ pc' = "token"
                     /\ UNCHANGED <<outcome, exc, result>>
          ELSE AwsOuter(Exc("socket.error", FALSE, 0))
  /\ UNCHANGED <<probe, attempts, token_hdr, v1, env, envRead>>

AwsTokenPut ==
  /\ probe = "aws" /\ pc = "token"
  /\ \E o \in Outcomes(TokenBodies) :
       LET a == Attempt(RetryPolicy("token"), attempts, o) IN
         /\ log' = Append(log, Entry("PUT", V2_TOKEN_URL, FALSE, Logged(a, o)))
         /\ IF a = "retry"
              THEN /\ attempts' = attempts + 1
                   /\ UNCHANGED <<pc, outcome, exc, result, token_hdr>>
            ELSE IF a = "raise"
              THEN /\ AwsInner(RaisedBy(o))
                   /\ attempts' = 0
                   /\ UNCHANGED token_hdr
            ELSE IF o.body.fmt = "badutf8"
              THEN /\ AwsInner(Exc("ValueError", FALSE, 0))
                   /\ attempts' = 0
                   /\ UNCHANGED token_hdr
            ELSE /\ token_hdr' = (o.body.txt # <<>>)
                 /\ pc' = "document"
                 /\ attempts' = 0
                 /\ UNCHANGED <<outcome, exc, result>>
  /\ UNCHANGED <<probe, v1, env, envRead>>

AwsDocumentGet ==
  /\ probe = "aws" /\ pc = "document"
  /\ \E o \in Outcomes(AwsDocBodies) :
       LET a == Attempt(RetryPolicy("fetch_metadata"), attempts, o) IN
         /\ log' = Append(log, Entry("GET", V1_URL \o DocumentPath, token_hdr, Logged(a, o)))
         /\ IF a = "retry"
              THEN /\ attempts' = attempts + 1
                   /\ UNCHANGED <<pc, outcome, exc, result>>
            ELSE IF a = "raise"
              THEN /\ AwsInner(RaisedBy(o))
                   /\ attempts' = 0
            ELSE IF AwsParseError(o.body) # "none"
              THEN /\ AwsInner(Exc(AwsParseError(o.body), FALSE, 0))
                   /\ attempts' = 0
            ELSE /\ Return(AwsNormalize(o.body.doc))
                 /\ attempts' = 0
  /\ UNCHANGED <<probe, token_hdr, v1, env, envRead>>

AwsV1Get ==
  /\ probe = "aws" /\ pc = "v1"
  /\ LET i == Len(v1) + 1 IN
     \E o \in Outcomes(V1Bodies(i)) :
       LET a == Attempt(RetryPolicy("fetch_metadata"), attempts, o) IN
         /\ log' = Append(log, Entry("GET", V1_URL \o V1Paths[i], FALSE, Logged(a, o)))
         /\ IF a = "retry"
              THEN /\ attempts' = attempts + 1
                   /\ UNCHANGED <<pc, outcome, exc, result, v1>>
            ELSE IF a = "raise"
              THEN /\ AwsOuter(RaisedBy(o))
                   /\ attempts' = 0
                   /\ UNCHANGED v1
            ELSE IF o.body.fmt = "badutf8"
              THEN /\ AwsOuter(Exc("ValueError", FALSE, 0))
                   /\ attempts' = 0
                   /\ UNCHANGED v1
            ELSE /\ v1' = Append(v1, o.body.txt)
                 /\ attempts' = 0
                 /\ IF i = 4 THEN Return(AwsV1Metadata(v1'))
                    ELSE UNCHANGED <<pc, outcome, exc, result>>
  /\ UNCHANGED <<probe, token_hdr, env, envRead>>

----------------------------------------------------------------------------
(* gcp_metadata *)

GcpHost == "metadata.google.internal:80"

GcpUrl == "http://metadata.google.internal/computeMetadata/v1/?recursive=true"

GcpDocKeys == {"instance.zone", "instance.id", "instance.name", "instance.machineType", "project.projectId"}

ZoneTexts == Texts({"/", "-", "a"}, MaxZoneLen)

MachineTypeTexts == {<<>>, <<"m">>, <<"p", "/", "m">>}

GcpDoc(z, m) == [k \in GcpDocKeys |-> IF k = "instance.zone" THEN z ELSE IF k = "instance.machineType" THEN m ELSE <<"v">>]

GcpDocBodies == {Object(GcpDoc(z, m)) : z \in ZoneTexts, m \in MachineTypeTexts} \cup {Object(d) : d \in OneMissing(GcpDocKeys)} \cup {Garbage, Array, BadUtf8}

\* os.path.split(p)[1] and p.split("/")[-1]: the text after the last "/"
LastSegment(s) == RSplit1(s, "/")[Len(RSplit1(s, "/"))]

GcpNormalize(d) ==
  ("provider" :> <<"gcp">>) @@ ("instance.id" :> d["instance.id"]) @@ ("instance.name" :> d["instance.name"])
  @@ ("project.id" :> d["project.projectId"]) @@ ("availability_zone" :> LastSegment(d["instance.zone"]))
  @@ ("region" :> RSplit1(LastSegment(d["instance.zone"]), "-")[1])
  @@ ("machine.type" :> LastSegment(d["instance.machineType"]))

ParseFails(b, keys) == b.fmt # "object" \/ ~(keys \subseteq DOMAIN b.doc)

GcpResolve ==
  /\ probe = "gcp" /\ pc = "getaddrinfo"
  /\ \E ok \in BOOLEAN :
       /\ log' = Append(log, Entry("getaddrinfo", GcpHost, FALSE, Connected(ok)))
       /\ IF ok THEN /\ pc' = "fetch"
                     /\ UNCHANGED <<outcome, exc, result>>
          ELSE Return(EmptyMap)
  /\ UNCHANGED <<probe, attempts, token_hdr, v1, env, envRead>>

GcpGet ==
  /\ probe = "gcp" /\ pc = "fetch"
  /\ \E o \in Outcomes(GcpDocBodies) :
       LET a == Attempt(RetryPolicy("gcp"), attempts, o) IN
         /\ log' = Append(log, Entry("GET", GcpUrl, FALSE, Logged(a, o)))
         /\ IF a = "retry"
              THEN /\ attempts' = attempts + 1
                   /\ UNCHANGED <<pc, outcome, exc, result>>
            ELSE /\ attempts' = 0
                 /\ IF a = "raise" \/ ParseFails(o.body, GcpDocKeys)
                      THEN Return(EmptyMap)
                    ELSE Return(GcpNormalize(o.body.doc))
  /\ UNCHANGED <<probe, token_hdr, v1, env, envRead>>

----------------------------------------------------------------------------
(* azure_app_service_metadata *)

OwnerVar == "WEBSITE_OWNER_NAME"

OtherVars == {"WEBSITE_INSTANCE_ID", "WEBSITE_SITE_NAME", "WEBSITE_RESOURCE_GROUP"}

EnvVars == {OwnerVar} \cup OtherVars

OwnerTokens == {"+", "-", "webspace", "a"}

OwnerNames == Texts(OwnerTokens, MaxOwnerLen)

SampleOwner == <<"s", "+", "g", "-", "r", "webspace", "x">>

SetValue(k) == IF k = "WEBSITE_INSTANCE_ID" THEN <<"i">> ELSE IF k = "WEBSITE_SITE_NAME" THEN <<"n">> ELSE <<"g">>

\* Every owner name with the other three variables set, and every
\* unset/empty/set combination of the four with a well-formed owner name.
Envs ==
  {(OwnerVar :> o) @@ [k \in OtherVars |-> SetValue(k)] : o \in OwnerNames}
  \cup UNION {{[k \in D |-> IF k \in E THEN <<>> ELSE IF k = OwnerVar THEN SampleOwner ELSE SetValue(k)] : E \in SUBSET D} : D \in SUBSET EnvVars}

NoEnv == [k \in {} |-> <<>>]

Truthy(e, k) == k \in DOMAIN e /\ e[k] # <<>>

\* Variant: the except clause hands back the partially filled ret.
AzureAppServicePartial(e) ==
  IF ~(\A k \in EnvVars : Truthy(e, k)) THEN EmptyMap
  ELSE IF ~Contains(e[OwnerVar], "+") THEN EmptyMap
  ELSE LET p == Split(e[OwnerVar], "+") IN
    IF Len(p) # 2 THEN ("provider" :> <<"azure">>)
    ELSE LET q == Split(p[2], "webspace") IN
      IF Len(q) # 2 THEN ("provider" :> <<"azure">>) @@ ("account.id" :> p[1])
      ELSE LET r == RSplit1(q[1], "-") IN
        IF Len(r) < 2 THEN ("provider" :> <<"azure">>) @@ ("account.id" :> p[1])
        ELSE ("provider" :> <<"azure">>) @@ ("account.id" :> p[1]) @@ ("region" :> r[2])
             @@ ("instance.id" :> e["WEBSITE_INSTANCE_ID"]) @@ ("instance.name" :> e["WEBSITE_SITE_NAME"])
             @@ ("project.name" :> e["WEBSITE_RESOURCE_GROUP"])

AzureAppServiceMetadata(e) ==
  IF ~(\A k \in EnvVars : Truthy(e, k)) THEN EmptyMap
  ELSE IF ~Contains(e[OwnerVar], "+") THEN EmptyMap
  ELSE LET p == Split(e[OwnerVar], "+") IN
    IF Len(p) # 2 THEN EmptyMap
    ELSE LET q == Split(p[2], "webspace") IN
      IF Len(q) # 2 THEN EmptyMap
      ELSE LET r == RSplit1(q[1], "-") IN
        IF Len(r) < 2 THEN EmptyMap
        ELSE ("provider" :> <<"azure">>) @@ ("account.id" :> p[1]) @@ ("region" :> r[2])
             @@ ("instance.id" :> e["WEBSITE_INSTANCE_ID"]) @@ ("instance.name" :> e["WEBSITE_SITE_NAME"])
             @@ ("project.name" :> e["WEBSITE_RESOURCE_GROUP"])

AzureAppServiceCall ==
  /\ probe = "app_service" /\ pc = "environ"
  /\ \E e \in Envs :
       /\ env' = e
       /\ envRead' = TRUE
       /\ Return(AzureAppServiceMetadata(e))
  /\ UNCHANGED <<probe, log, attempts, token_hdr, v1>>

----------------------------------------------------------------------------
(* azure_metadata *)

AzureUrl == "http://169.254.169.254/metadata/instance/compute?api-version=2019-08-15"

AzureDocKeys == {"subscriptionId", "vmId", "name", "resourceGroupName", "zone", "vmSize", "location"}

AzureDocBodies == {Object(d) : d \in [AzureDocKeys -> FieldVals] \cup OneMissing(AzureDocKeys)} \cup {Garbage, Array, BadUtf8}

AzureRet(d) ==
  ("account.id" :> d["subscriptionId"]) @@ ("instance.id" :> d["vmId"]) @@ ("instance.name" :> d["name"])
  @@ ("project.name" :> d["resourceGroupName"]) @@ ("availability_zone" :> d["zone"])
  @@ ("machine.type" :> d["vmSize"]) @@ ("provider" :> <<"azure">>) @@ ("region" :> d["location"])

Pop(m, key) == [k \in DOMAIN m \ {key} |-> m[k]]

\* Variant: the falsy zone is kept.
AzureNormalizeKeepZone(d) == AzureRet(d)

AzureNormalize(d) == IF AzureRet(d)["availability_zone"] = <<>> THEN Pop(AzureRet(d), "availability_zone") ELSE AzureRet(d)

\* Variant: the handler returns {} itself.
AzureExceptEmpty(e) == EmptyMap

\* except Exception: return azure_app_service_metadata()
AzureExcept(e) == AzureAppServiceMetadata(e)

AzureFallback ==
  \E e \in Envs :
    /\ env' = e
    /\ envRead' = TRUE
    /\ Return(AzureExcept(e))

AzureConnect ==
  /\ probe = "azure" /\ pc = "connect"
  /\ \E ok \in BOOLEAN :
       /\ log' = Append(log, Entry("connect", LinkLocal, FALSE, Connected(ok)))
       /\ IF ok THEN /\ pc' = "fetch"
                     /\ UNCHANGED <<outcome, exc, result, env, envRead>>
          ELSE AzureFallback
  /\ UNCHANGED <<probe, attempts, token_hdr, v1>>

AzureGet ==
  /\ probe = "azure" /\ pc = "fetch"
  /\ \E o \in Outcomes(AzureDocBodies) :
       LET a == Attempt(RetryPolicy("azure"), attempts, o) IN
         /\ log' = Append(log, Entry("GET", AzureUrl, FALSE, Logged(a, o)))
         /\ IF a = "retry"
              THEN /\ attempts' = attempts + 1
                   /\ UNCHANGED <<pc, outcome, exc, result, env, envRead>>
            ELSE /\ attempts' = 0
                 /\ IF a = "raise" \/ ParseFails(o.body, AzureDocKeys)
                      THEN AzureFallback
                    ELSE /\ Return(AzureNormalize(o.body.doc))
                         /\ UNCHANGED <<env, envRead>>
  /\ UNCHANGED <<probe, token_hdr, v1>>

----------------------------------------------------------------------------
(* One call of one probe *)

Probes == {"aws", "gcp", "azure", "app_service"}

EntryPoint(p) == IF p = "gcp" THEN "getaddrinfo" ELSE IF p = "app_service" THEN "environ" ELSE "connect"

Init ==
  /\ probe \in Probes
  /\ pc = EntryPoint(probe)
  /\ outcome = "running"
  /\ exc = "none"
  /\ result = EmptyMap
  /\ log = <<>>
  /\ attempts = 0
  /\ token_hdr = FALSE
  /\ v1 = <<>>
  /\ env = NoEnv
  /\ envRead = FALSE

Next ==
  \/ AwsConnect
  \/ AwsTokenPut
  \/ AwsDocumentGet
  \/ AwsV1Get
  \/ GcpResolve
  \/ GcpGet
  \/ AzureConnect
  \/ AzureGet
  \/ AzureAppServiceCall

Spec == Init /\ [][Next]_vars

----------------------------------------------------------------------------
(* Properties *)

Done == pc = "done"

IsRequest(x) == x.op \in {"PUT", "GET"}

Requests == {i \in 1..Len(log) : IsRequest(log[i])}

Puts == {i \in 1..Len(log) : log[i].op = "PUT"}

ProbeFailedAtStart == Len(log) >= 1 /\ log[1].op \in {"connect", "getaddrinfo"} /\ log[1].kind = "neterr"

ProbeReached == Len(log) >= 1 /\ log[1].op \in {"connect", "getaddrinfo"} /\ log[1].kind = "ok"

DocumentUrl == V1_URL \o DocumentPath

IsV1Get(x) == x.op = "GET" /\ \E k \in 1..4 : x.url = V1_URL \o V1Paths[k]

\* Index of the identity-document GET in the record, 0 if there is none.
DocumentAt == IF \E i \in 1..Len(log) : log[i].url = DocumentUrl THEN CHOOSE i \in 1..Len(log) : log[i].url = DocumentUrl ELSE 0

ProviderOf(p) == IF p = "aws" THEN <<"aws">> ELSE IF p = "gcp" THEN <<"gcp">> ELSE <<"azure">>

\* C1: aws_metadata never raises to its caller: whatever the outcomes of the
\* connect, the token PUT, the document GET, the JSON parse and the v1 GETs, the
\* call returns a mapping, and a failure that is not the 401-triggered v1
\* fallback returns the empty mapping.
C1_AwsNeverRaises ==
  (probe = "aws" /\ Done) =>
    /\ outcome = "returned"
    /\ ((\E i \in 1..Len(log) : log[i].kind \in {"neterr", "httperr"})
        /\ ~(\E i \in 1..Len(log) : log[i].kind = "httperr" /\ log[i].status = Unauthorized)
        => result = EmptyMap)

\* C2: for each of the four probes and every path, the returned mapping is
\* empty or holds provider (aws, gcp or azure), region and instance.id in the
\* normalized shape, the IMDSv1 fallback path of aws_metadata included.
C2_NormalizedShape ==
  (Done /\ outcome = "returned") =>
    \/ result = EmptyMap
    \/ /\ {"provider", "region", "instance.id"} \subseteq DOMAIN result
       /\ result["provider"] = ProviderOf(probe)

NoSignal ==
  /\ probe \in {"aws", "gcp", "azure"} => ProbeFailedAtStart
  /\ probe \in {"azure", "app_service"} => (envRead /\ \A k \in EnvVars : k \notin DOMAIN env)

\* C3: with no signal present (connect to the link-local address fails, the GCP
\* host does not resolve, the four WEBSITE_* variables are unset) each probe
\* returns the empty mapping without raising, and aws_metadata, gcp_metadata and
\* azure_metadata issue no HTTP request.
C3_NoSignalEmpty ==
  (Done /\ NoSignal) =>
    /\ outcome = "returned"
    /\ result = EmptyMap
    /\ Requests = {}

C3_Witness == Done /\ NoSignal /\ probe = "aws" /\ Len(log) = 1

\* C4: in aws_metadata, when the connect and the token request succeed and the
\* identity-document GET is answered with HTTP 401, the probe issues exactly
\* four further GETs (iam/info, instance-id, instance-type,
\* placement/availability-zone, in that order, without the token header) and
\* returns a mapping whose region is the fetched availability zone without its
\* last character.
C4_V1FallbackOn401 ==
  (/\ probe = "aws" /\ Done
   /\ ProbeReached
   /\ DocumentAt > 1
   /\ log[DocumentAt - 1].op = "PUT" /\ log[DocumentAt - 1].kind = "resp"
   /\ log[DocumentAt].status = Unauthorized) =>
    /\ Len(log) = DocumentAt + 4
    /\ \A k \in 1..4 : /\ log[DocumentAt + k].op = "GET"
                       /\ log[DocumentAt + k].url = V1_URL \o V1Paths[k]
                       /\ ~log[DocumentAt + k].hdr
    /\ outcome = "returned"
    /\ "region" \in DOMAIN result
    /\ result["region"] = DropLast(log[DocumentAt + 4].body.txt)

AzureFailed ==
  \/ ProbeFailedAtStart
  \/ /\ Len(log) >= 2
     /\ \/ log[Len(log)].kind # "resp"
        \/ log[Len(log)].body.fmt # "object"
        \/ \E k \in AzureDocKeys : k \notin DOMAIN log[Len(log)].body.doc

AzureFieldOf == [k \in {"account.id", "instance.id", "instance.name", "project.name", "machine.type", "region"} |->
  IF k = "account.id" THEN "subscriptionId" ELSE IF k = "instance.id" THEN "vmId" ELSE IF k = "instance.name" THEN "name"
  ELSE IF k = "project.name" THEN "resourceGroupName" ELSE IF k = "machine.type" THEN "vmSize" ELSE "location"]

AzureSucceeded == probe = "azure" /\ Done /\ ~envRead

\* C6: on the successful link-local path of azure_metadata the key
\* availability_zone is in the result exactly when the zone of the document is
\* non-empty, and then equals it; every other normalized field is present with
\* the document's value whether or not that value is empty.
C6_AzureZoneOmitted ==
  AzureSucceeded =>
    LET d == log[Len(log)].body.doc IN
      /\ ("availability_zone" \in DOMAIN result) <=> (d["zone"] # <<>>)
      /\ "availability_zone" \in DOMAIN result => result["availability_zone"] = d["zone"]
      /\ \A k \in DOMAIN AzureFieldOf : k \in DOMAIN result /\ result[k] = d[AzureFieldOf[k]]
      /\ "provider" \in DOMAIN result /\ result["provider"] = <<"azure">>

C6_Witness ==
  /\ AzureSucceeded
  /\ log[Len(log)].body.doc["zone"] = <<>>
  /\ log[Len(log)].body.doc["vmSize"] = <<>>
  /\ "machine.type" \in DOMAIN result

\* The text after the first "+", and in it the text before the first "webspace".
AfterPlus(o) == SubSeq(o, FirstIndex(o, "+") + 1, Len(o))

RegionPrefix(o) == SubSeq(AfterPlus(o), 1, FirstIndex(AfterPlus(o), "webspace") - 1)

DelimitersInOrder(o) ==
  /\ Contains(o, "+")
  /\ Contains(AfterPlus(o), "webspace")
  /\ Contains(RegionPrefix(o), "-")

OthersSet(e) == \A k \in OtherVars : Truthy(e, k)

\* C7: azure_app_service_metadata, with the other three variables non-empty,
\* parses WEBSITE_OWNER_NAME at the first "+", the first "webspace" after it and
\* the last "-" of the prefix between them; for every owner name holding these
\* delimiters in that order (more than one "+" or "webspace" included) the
\* result is provider=azure, account.id = the text before the first "+",
\* region = the text after the last "-" of the prefix, instance.id,
\* instance.name and project.name from the other variables, and nothing else.
C7_OwnerNameParsed ==
  (/\ probe = "app_service" /\ Done
   /\ OthersSet(env) /\ OwnerVar \in DOMAIN env
   /\ DelimitersInOrder(env[OwnerVar])) =>
    /\ outcome = "returned"
    /\ DOMAIN result = {"provider", "account.id", "region", "instance.id", "instance.name", "project.name"}
    /\ result["provider"] = <<"azure">>
    /\ result["account.id"] = SubSeq(env[OwnerVar], 1, FirstIndex(env[OwnerVar], "+") - 1)
    /\ result["region"] = SubSeq(RegionPrefix(env[OwnerVar]), LastIndex(RegionPrefix(env[OwnerVar]), "-") + 1, Len(RegionPrefix(env[OwnerVar])))
    /\ result["instance.id"] = env["WEBSITE_INSTANCE_ID"]
    /\ result["instance.name"] = env["WEBSITE_SITE_NAME"]
    /\ result["project.name"] = env["WEBSITE_RESOURCE_GROUP"]

Malformed(e) ==
  \/ \E k \in EnvVars : ~Truthy(e, k)
  \/ ~Contains(e[OwnerVar], "+")
  \/ ~Contains(AfterPlus(e[OwnerVar]), "webspace")
  \/ ~Contains(RegionPrefix(e[OwnerVar]), "-")

\* C8: azure_app_service_metadata returns the empty mapping, without raising
\* and without a partially filled result, whenever one of the four WEBSITE_*
\* variables is unset or empty, or WEBSITE_OWNER_NAME has no "+", no "webspace"
\* after the "+", or no "-" in the prefix before "webspace".
C8_MalformedIsEmpty ==
  (Done /\ envRead /\ Malformed(env)) => (outcome = "returned" /\ result = EmptyMap)

C8_Witness ==
  /\ probe = "app_service" /\ Done
  /\ \A k \in EnvVars : Truthy(env, k)
  /\ Contains(env[OwnerVar], "+")
  /\ Contains(AfterPlus(env[OwnerVar]), "webspace")
  /\ ~Contains(RegionPrefix(env[OwnerVar]), "-")
  /\ result = EmptyMap

Retryable(x) == (x.kind = "resp" /\ x.status = Unauthorized) \/ x.kind = "neterr"

C10_LinearRun ==
  /\ Done => outcome = "returned"
  /\ Requests # {} => ProbeReached
  /\ \A i \in 1..Len(log) : log[i].url = DocumentUrl => (i > 1 /\ log[i - 1].op = "PUT" /\ log[i - 1].kind = "resp")
  /\ \A i \in 1..Len(log) : IsV1Get(log[i]) =>
       (DocumentAt > 0 /\ DocumentAt < i /\ log[DocumentAt].kind = "httperr" /\ log[DocumentAt].status = Unauthorized)
  /\ Len(log) <= 1 + (RetryTotal + 1) + 1 + 4

====
